---- MODULE Spec2Model ----
(***************************************************************************)
(* batch-fft: the GPU benchmark driver (rust-cuda/src/main.rs) and the     *)
(* ownership wrappers it drives (rust-cuda/src/cuda_ffi.rs and             *)
(* rust-cuda/src/cufft_ffi.rs).                                            *)
(*                                                                         *)
(* Every foreign call (CUDA runtime, cuFFT) is recorded in `calls` with    *)
(* the arguments the wrapper handed over and the status the library        *)
(* returned; the status is a nondeterministic choice over the declared     *)
(* discriminants.  Every wrapper invocation is recorded in `rets` with     *)
(* what it returned to its caller.  Machine words are modelled at a        *)
(* reduced width (UsizeBits for usize, I32Bits for i32): as with the real   *)
(* widths, there are element counts that `as i32` changes and whose byte   *)
(* count still fits a usize.                                               *)
(***************************************************************************)
EXTENDS Integers, Sequences, FiniteSets, TLC

(***************************************************************************)
(* Bounds of the model.                                                    *)
(***************************************************************************)
UsizeBits == 9
I32Bits == 3
MaxApiCopies == 2

(***************************************************************************)
(* Status codes: cuda_ffi.rs:8-13 and cufft_ffi.rs:13-24.                  *)
(***************************************************************************)
cudaSuccess == 0
cudaErrorInvalidValue == 1
cudaErrorMemoryAllocation == 2
cudaError_t == {cudaSuccess, cudaErrorInvalidValue, cudaErrorMemoryAllocation}

CUFFT_SUCCESS == 0
CUFFT_INVALID_PLAN == 1
CUFFT_ALLOC_FAILED == 2
CUFFT_INVALID_TYPE == 3
CUFFT_INVALID_VALUE == 4
CUFFT_INTERNAL_ERROR == 5
CUFFT_EXEC_FAILED == 6
CUFFT_SETUP_FAILED == 7
CUFFT_INVALID_SIZE == 8
CUFFT_UNALIGNED_DATA == 9
cufftResult == CUFFT_SUCCESS .. CUFFT_UNALIGNED_DATA

\* The statuses the libraries are made to return: all of cudaError_t, and of
\* cufftResult the success value and two failures, one of which
\* (CUFFT_INVALID_PLAN) has the number of a cudaError_t failure.
CudaReturns == cudaError_t
CufftReturns == {CUFFT_SUCCESS, CUFFT_INVALID_PLAN, CUFFT_EXEC_FAILED}

\* size_of::<Complex32>(): two f32.
SizeOfT == 8

(***************************************************************************)
(* Machine arithmetic.                                                     *)
(***************************************************************************)
RECURSIVE Pow2(_)
Pow2(n) == IF n = 0 THEN 1 ELSE 2 * Pow2(n - 1)

UsizeMod == Pow2(UsizeBits)

\* usize * usize: overflows(a, b) is a panic with overflow checks on
\* (debug profile) and a wrap with them off (release profile).
MulOverflows(a, b) == a * b >= UsizeMod
WrappingMul(a, b) == (a * b) % UsizeMod

\* `x as i32`: keep the low I32Bits bits, two's complement.
AsI32(x) ==
    LET m == x % Pow2(I32Bits)
    IN  IF m >= Pow2(I32Bits - 1) THEN m - Pow2(I32Bits) ELSE m

(***************************************************************************)
(* Values of the wrappers.                                                 *)
(***************************************************************************)
NullPtr == "null"
NoErr == [type |-> "none", code |-> 0, text |-> ""]

\* Result<_, _> of a wrapper, or the panic that unwinds out of it.
Ok(v) == [tag |-> "Ok", val |-> v, err |-> NoErr]
Err(e) == [tag |-> "Err", val |-> NullPtr, err |-> e]
Panic(msg) == [tag |-> "Panic", val |-> NullPtr,
               err |-> [type |-> "panic", code |-> 0, text |-> msg]]

CudaErr(c) == [type |-> "cudaError_t", code |-> c, text |-> ""]
CufftErr(c) == [type |-> "cufftResult", code |-> c, text |-> ""]
\* format!("<prefix>: {}", status): a String holding the prefix and the
\* rendering of one status.
StringErr(prefix, c) == [type |-> "String", code |-> c, text |-> prefix]

\* One foreign call: the function, the wrapper operation that issued it, the
\* handle(s) and integers handed over, the status returned, and whether the
\* wrapper went on to read the call's output parameter.  `inv` (the index in
\* `rets` of the wrapper invocation that issued it) and `step` (the driver's
\* position) are filled in when the call is recorded.
Call(fn, op, h, h2, x, y, res, rd) ==
    [fn |-> fn, op |-> op, h |-> h, h2 |-> h2, x |-> x, y |-> y,
     res |-> res, outRead |-> rd, inv |-> 0, step |-> ""]

\* What a wrapper operation did: the value returned, the foreign calls
\* issued, in order, and the diagnostics written to standard error.
Did(ret, cs, ws) == [ret |-> ret, calls |-> cs, warn |-> ws]

Unit == "()"
Unspecified == "unspecified"

(***************************************************************************)
(* cuda_ffi.rs: CudaBuffer<T>.                                             *)
(***************************************************************************)
\* Mutant: the buffer is built from the output pointer before the status is
\* looked at.
MutAllocReadsPtrFirst(len, checks, out, r) ==
    IF checks /\ MulOverflows(len, SizeOfT)
    THEN Did(Panic("attempt to multiply with overflow"), <<>>, <<>>)
    ELSE Did(IF r # cudaSuccess THEN Err(CudaErr(r))
                                ELSE Ok([ptr |-> out, len |-> len]),
             <<Call("cudaMalloc", "alloc",
                    IF r # cudaSuccess THEN Unspecified ELSE out, NullPtr,
                    WrappingMul(len, SizeOfT), 0, r, TRUE)>>, <<>>)

\* CudaBuffer::alloc(len).  `out` is the pointer the library stores through
\* devPtr when it succeeds; `r` is the status it returns.
alloc(len, checks, out, r) ==
    IF checks /\ MulOverflows(len, SizeOfT)
    THEN Did(Panic("attempt to multiply with overflow"), <<>>, <<>>)
    ELSE LET size == WrappingMul(len, SizeOfT)
         IN  IF r # cudaSuccess
             THEN Did(Err(CudaErr(r)),
                      <<Call("cudaMalloc", "alloc", Unspecified, NullPtr,
                             size, 0, r, FALSE)>>, <<>>)
             ELSE Did(Ok([ptr |-> out, len |-> len]),
                      <<Call("cudaMalloc", "alloc", out, NullPtr,
                             size, 0, r, TRUE)>>, <<>>)

MutCopyWithoutLengthCheck(self, hostLen, checks, r) ==
    Did(IF r # cudaSuccess THEN Err(CudaErr(r)) ELSE Ok(Unit),
        <<Call("cudaMemcpy", "copy_from_host", self.ptr, "host",
               WrappingMul(self.len, SizeOfT), hostLen, r, FALSE)>>, <<>>)

\* CudaBuffer::copy_from_host(&mut self, host_data), host_data.len() = hostLen.
\* In the recorded call x is the byte count and y the length of the slice
\* whose pointer is handed over.
copy_from_host(self, hostLen, checks, r) ==
    IF hostLen # self.len
    THEN Did(Panic("Size mismatch"), <<>>, <<>>)
    ELSE IF checks /\ MulOverflows(self.len, SizeOfT)
    THEN Did(Panic("attempt to multiply with overflow"), <<>>, <<>>)
    ELSE LET c == Call("cudaMemcpy", "copy_from_host", self.ptr, "host",
                       WrappingMul(self.len, SizeOfT), hostLen, r, FALSE)
         IN  IF r # cudaSuccess
             THEN Did(Err(CudaErr(r)), <<c>>, <<>>)
             ELSE Did(Ok(Unit), <<c>>, <<>>)

\* CudaBuffer::as_ptr.
as_ptr(self) == self.ptr

\* Mutant: a Drop that never frees.
MutDropCudaBufferLeaks(self, r) == Did(Ok(Unit), <<>>, <<>>)

\* Drop for CudaBuffer<T>.
DropCudaBuffer(self, r) ==
    LET c == Call("cudaFree", "drop_buffer", self.ptr, NullPtr, 0, 0, r, FALSE)
    IN  IF r # cudaSuccess
        THEN Did(Ok(Unit), <<c>>,
                 <<[kind |-> "warning", what |-> "cudaFree", err |-> CudaErr(r)]>>)
        ELSE Did(Ok(Unit), <<c>>, <<>>)

(***************************************************************************)
(* cuda_ffi.rs: CudaEvent and cuda_device_synchronize.                     *)
(***************************************************************************)
\* CudaEvent::create().  `out` is the handle the library stores on success.
create(out, r) ==
    IF r # cudaSuccess
    THEN Did(Err(CudaErr(r)),
             <<Call("cudaEventCreate", "create", Unspecified, NullPtr,
                    0, 0, r, FALSE)>>, <<>>)
    ELSE Did(Ok([event |-> out]),
             <<Call("cudaEventCreate", "create", out, NullPtr,
                    0, 0, r, TRUE)>>, <<>>)

\* CudaEvent::record(&self), on the null stream.
record(self, r) ==
    LET c == Call("cudaEventRecord", "record", self.event, NullPtr, 0, 0, r, FALSE)
    IN  IF r # cudaSuccess THEN Did(Err(CudaErr(r)), <<c>>, <<>>)
                           ELSE Did(Ok(Unit), <<c>>, <<>>)

\* CudaEvent::synchronize(&self).
synchronize(self, r) ==
    LET c == Call("cudaEventSynchronize", "synchronize", self.event, NullPtr,
                  0, 0, r, FALSE)
    IN  IF r # cudaSuccess THEN Did(Err(CudaErr(r)), <<c>>, <<>>)
                           ELSE Did(Ok(Unit), <<c>>, <<>>)

\* CudaEvent::elapsed_time(&self, end).  `out` is the duration the library
\* stores through ms on success.
elapsed_time(self, end, out, r) ==
    IF r # cudaSuccess
    THEN Did(Err(CudaErr(r)),
             <<Call("cudaEventElapsedTime", "elapsed_time", self.event,
                    end.event, 0, 0, r, FALSE)>>, <<>>)
    ELSE Did(Ok(out),
             <<Call("cudaEventElapsedTime", "elapsed_time", self.event,
                    end.event, 0, 0, r, TRUE)>>, <<>>)

\* Mutant: a Drop that panics on a failed release instead of warning.
MutDropCudaEventPanics(self, r) ==
    LET c == Call("cudaEventDestroy", "drop_event", self.event, NullPtr,
                  0, 0, r, FALSE)
    IN  IF r # cudaSuccess
        THEN Did(Panic("cudaEventDestroy failed"), <<c>>, <<>>)
        ELSE Did(Ok(Unit), <<c>>, <<>>)

\* Drop for CudaEvent.
DropCudaEvent(self, r) ==
    LET c == Call("cudaEventDestroy", "drop_event", self.event, NullPtr,
                  0, 0, r, FALSE)
    IN  IF r # cudaSuccess
        THEN Did(Ok(Unit), <<c>>,
                 <<[kind |-> "warning", what |-> "cudaEventDestroy",
                    err |-> CudaErr(r)]>>)
        ELSE Did(Ok(Unit), <<c>>, <<>>)

\* cuda_device_synchronize().
cuda_device_synchronize(r) ==
    LET c == Call("cudaDeviceSynchronize", "cuda_device_synchronize",
                  NullPtr, NullPtr, 0, 0, r, FALSE)
    IN  IF r # cudaSuccess THEN Did(Err(CudaErr(r)), <<c>>, <<>>)
                           ELSE Did(Ok(Unit), <<c>>, <<>>)

(***************************************************************************)
(* cufft_ffi.rs: CufftPlan.                                                *)
(***************************************************************************)
\* Mutant: the plan is returned whatever cufftPlanMany answered.
MutNewBatch1dNoCheck(length, batch, out, r) ==
    Did(Ok([handle |-> out]),
        <<Call("cufftPlanMany", "new_batch_1d", out, NullPtr,
               AsI32(length), AsI32(batch), r, TRUE)>>, <<>>)

\* CufftPlan::new_batch_1d(length, batch).  In the recorded cufftPlanMany
\* call x is n[0] = idist = odist (length as i32) and y is the batch count
\* (batch as i32); rank 1 and strides 1 are literals of the call.
new_batch_1d(length, batch, out, r) ==
    IF r # CUFFT_SUCCESS
    THEN Did(Err(CufftErr(r)),
             <<Call("cufftPlanMany", "new_batch_1d", Unspecified, NullPtr,
                    AsI32(length), AsI32(batch), r, FALSE)>>, <<>>)
    ELSE Did(Ok([handle |-> out]),
             <<Call("cufftPlanMany", "new_batch_1d", out, NullPtr,
                    AsI32(length), AsI32(batch), r, TRUE)>>, <<>>)

\* Mutant: the transform is issued and never synchronized.
MutExecuteForwardNoSync(self, data, r, rs) ==
    LET c == Call("cufftExecC2C", "execute_forward", self.handle, data,
                  0, 0, r, FALSE)
    IN  IF r # CUFFT_SUCCESS
        THEN Did(Err(StringErr("cuFFT execution failed", r)), <<c>>, <<>>)
        ELSE Did(Ok(Unit), <<c>>, <<>>)

\* Mutant: a failed synchronization is reported with the transform's status
\* and message.
MutExecuteForwardReportsTransform(self, data, r, rs) ==
    LET c == Call("cufftExecC2C", "execute_forward", self.handle, data,
                  0, 0, r, FALSE)
    IN  IF r # CUFFT_SUCCESS
        THEN Did(Err(StringErr("cuFFT execution failed", r)), <<c>>, <<>>)
        ELSE LET s == cuda_device_synchronize(rs)
             IN  IF s.ret.tag = "Err"
                 THEN Did(Err(StringErr("cuFFT execution failed", r)),
                          <<c>> \o s.calls, <<>>)
                 ELSE Did(Ok(Unit), <<c>> \o s.calls, <<>>)

\* CufftPlan::execute_forward(&self, data): cufftExecC2C in place, then
\* cuda_device_synchronize() mapped into a String error.
execute_forward(self, data, r, rs) ==
    LET c == Call("cufftExecC2C", "execute_forward", self.handle, data,
                  0, 0, r, FALSE)
    IN  IF r # CUFFT_SUCCESS
        THEN Did(Err(StringErr("cuFFT execution failed", r)), <<c>>, <<>>)
        ELSE LET s == cuda_device_synchronize(rs)
             IN  IF s.ret.tag = "Err"
                 THEN Did(Err(StringErr("CUDA synchronization failed",
                                        s.ret.err.code)),
                          <<c>> \o s.calls, <<>>)
                 ELSE Did(Ok(Unit), <<c>> \o s.calls, <<>>)

\* Drop for CufftPlan.
DropCufftPlan(self, r) ==
    LET c == Call("cufftDestroy", "drop_plan", self.handle, NullPtr,
                  0, 0, r, FALSE)
    IN  IF r # CUFFT_SUCCESS
        THEN Did(Ok(Unit), <<c>>,
                 <<[kind |-> "warning", what |-> "cufftDestroy",
                    err |-> CufftErr(r)]>>)
        ELSE Did(Ok(Unit), <<c>>, <<>>)

(***************************************************************************)
(* main.rs: the benchmark driver.                                          *)
(***************************************************************************)
VARIABLES
    args,            \* Args { batch, length } as parsed
    overflowChecks,  \* build profile: integer overflow panics (TRUE) or wraps
    pc,              \* position in main
    total_size,      \* main.rs:53
    h_data,          \* host input: its length
    d_data,          \* CudaBuffer<Complex32>
    plan,            \* CufftPlan
    start,           \* CudaEvent
    stop,            \* CudaEvent
    milliseconds,    \* main.rs:89
    result,          \* what main returns (or the panic unwinding out of it)
    calls,           \* foreign calls issued so far, in order
    rets,            \* wrapper invocations returned so far, in order
    stdout,
    stderr,
    exitCode

\* src/main.rs: the CPU benchmark (a separate program; it shares args, pc,
\* total_size, stdout, stderr and exitCode with the driver above).
VARIABLES
    workers,         \* threads of rayon's global pool
    data,            \* the array of batch * length samples
    input,           \* data as it was handed to perform_batch_fft
    fft,             \* the plan perform_batch_fft made
    units,           \* the chunks of par_chunks_mut, one closure call each
    touched,         \* for each element of data, the units that accessed it
    scratch          \* the scratch buffers allocated, with their users

cpuVars == <<workers, data, input, fft, units, touched, scratch>>

vars == <<args, overflowChecks, pc, total_size, h_data, d_data, plan, start,
          stop, milliseconds, result, calls, rets, stdout, stderr, exitCode,
          cpuVars>>

\* The GPU programs do not have the CPU benchmark's state.
CpuIdle ==
    /\ workers = 0
    /\ data = <<>>
    /\ input = <<>>
    /\ fft = [len |-> 0, twiddle |-> 0]
    /\ units = <<>>
    /\ touched = <<>>
    /\ scratch = <<>>

\* Command lines tried: zero, small values, a value that `as i32` changes
\* (2^I32Bits + k, which it turns into k) and a length whose product with the
\* largest batch overflows usize.
Batches == {0, 2, Pow2(I32Bits) + 1}
Lengths == {0, 2, Pow2(I32Bits) + 2, 7 * Pow2(I32Bits) + 1}

NoBuffer == [state |-> "none", ptr |-> NullPtr, len |-> 0]
NoPlan == [state |-> "Uninitialized", handle |-> NullPtr]
NoEvent == [state |-> "none", event |-> NullPtr]
Running == [tag |-> "Running", err |-> NoErr]
NotExited == 0 - 1

\* isize::MAX, the largest byte size a Vec may have.
IsizeMax == Pow2(UsizeBits - 1) - 1

\* generate_input_data(batch, length): the length of the Vec it returns.
\* Vec::with_capacity(total_size) panics when total_size elements are more
\* than isize::MAX bytes.
generate_input_data(batch, length, checks) ==
    IF checks /\ MulOverflows(batch, length)
    THEN Panic("attempt to multiply with overflow")
    ELSE IF WrappingMul(batch, length) * SizeOfT > IsizeMax
    THEN Panic("capacity overflow")
    ELSE Ok(WrappingMul(batch, length))

Init ==
    /\ args \in [batch : Batches, length : Lengths]
    /\ overflowChecks \in BOOLEAN
    /\ pc = "total_size"
    /\ total_size = 0
    /\ h_data = 0
    /\ d_data = NoBuffer
    /\ plan = NoPlan
    /\ start = NoEvent
    /\ stop = NoEvent
    /\ milliseconds = Unspecified
    /\ result = Running
    /\ calls = <<>>
    /\ rets = <<>>
    /\ stdout = <<>>
    /\ stderr = <<>>
    /\ exitCode = NotExited
    /\ CpuIdle

\* A wrapper invocation `d` made at the current position is logged: its
\* foreign calls, its return (with the integers x, y it was given), its
\* diagnostics and, for a panic, the panic message.
Logged(d, op, x, y) ==
    /\ calls' = calls \o [i \in 1 .. Len(d.calls) |->
                            [d.calls[i] EXCEPT !.inv = Len(rets) + 1,
                                               !.step = pc]]
    /\ rets' = Append(rets, [op |-> op, step |-> pc, x |-> x, y |-> y,
                             tag |-> d.ret.tag, err |-> d.ret.err])
    /\ stderr' = stderr \o d.warn \o
                   (IF d.ret.tag = "Panic"
                    THEN <<[kind |-> "panic", what |-> op, err |-> d.ret.err]>>
                    ELSE <<>>)

\* The `?` after a wrapper call: Ok continues at `next`; Err returns it from
\* main (boxed); a panic unwinds.  Either way the live locals are dropped.
Question(ret, next) ==
    IF ret.tag = "Ok"
    THEN pc' = next /\ result' = result
    ELSE pc' = "drop" /\ result' = [tag |-> ret.tag, err |-> ret.err]

\* main.rs:53
TotalSize ==
    /\ pc = "total_size"
    /\ IF overflowChecks /\ MulOverflows(args.batch, args.length)
       THEN /\ pc' = "drop"
            /\ result' = [tag |-> "Panic",
                          err |-> Panic("attempt to multiply with overflow").err]
            /\ stderr' = Append(stderr,
                   [kind |-> "panic", what |-> "main",
                    err |-> Panic("attempt to multiply with overflow").err])
            /\ total_size' = total_size
       ELSE /\ pc' = "generate"
            /\ total_size' = WrappingMul(args.batch, args.length)
            /\ UNCHANGED <<result, stderr>>
    /\ UNCHANGED <<cpuVars, args, overflowChecks, h_data, d_data, plan, start, stop,
                   milliseconds, calls, rets, stdout, exitCode>>

\* main.rs:54
Generate ==
    /\ pc = "generate"
    /\ LET g == generate_input_data(args.batch, args.length, overflowChecks)
       IN  /\ Question(g, "alloc")
           /\ h_data' = IF g.tag = "Ok" THEN g.val ELSE h_data
           /\ stderr' = IF g.tag = "Panic"
                        THEN Append(stderr, [kind |-> "panic",
                                             what |-> "generate_input_data",
                                             err |-> g.err])
                        ELSE stderr
    /\ UNCHANGED <<cpuVars, args, overflowChecks, total_size, d_data, plan, start, stop,
                   milliseconds, calls, rets, stdout, exitCode>>

\* main.rs:58
Alloc ==
    /\ pc = "alloc"
    /\ \E r \in CudaReturns :
         LET d == alloc(total_size, overflowChecks, "d_data", r)
         IN  /\ Logged(d, "alloc", total_size, 0)
             /\ Question(d.ret, "copy1")
             /\ d_data' = IF d.ret.tag = "Ok"
                          THEN [state |-> "live", ptr |-> d.ret.val.ptr,
                                len |-> d.ret.val.len]
                          ELSE d_data
    /\ UNCHANGED <<cpuVars, args, overflowChecks, total_size, h_data, plan, start, stop,
                   milliseconds, stdout, exitCode>>

\* Mutant: the upload's Result is dropped instead of propagated with `?`.
MutCopyIgnoresErr(at, next) ==
    /\ pc = at
    /\ \E r \in CudaReturns :
         LET d == copy_from_host(d_data, h_data, overflowChecks, r)
         IN  /\ Logged(d, "copy_from_host", d_data.len, h_data)
             /\ IF d.ret.tag = "Panic" THEN Question(d.ret, next)
                                       ELSE pc' = next /\ result' = result
    /\ UNCHANGED <<cpuVars, args, overflowChecks, total_size, h_data, d_data, plan,
                   start, stop, milliseconds, stdout, exitCode>>

\* Mutant: the re-upload after the warm-up is left out.
MutCopy2Skipped ==
    /\ pc = "copy2"
    /\ pc' = "create_start"
    /\ UNCHANGED <<cpuVars, args, overflowChecks, total_size, h_data, d_data, plan,
                   start, stop, milliseconds, result, calls, rets, stdout,
                   stderr, exitCode>>

\* main.rs:62 and main.rs:73
Copy(at, next) ==
    /\ pc = at
    /\ \E r \in CudaReturns :
         LET d == copy_from_host(d_data, h_data, overflowChecks, r)
         IN  /\ Logged(d, "copy_from_host", d_data.len, h_data)
             /\ Question(d.ret, next)
    /\ UNCHANGED <<cpuVars, args, overflowChecks, total_size, h_data, d_data, plan,
                   start, stop, milliseconds, stdout, exitCode>>

Copy1 == Copy("copy1", "plan")
Copy2 == Copy("copy2", "create_start")

\* main.rs:65
NewPlan ==
    /\ pc = "plan"
    /\ \E r \in CufftReturns :
         LET d == new_batch_1d(args.length, args.batch, "plan", r)
         IN  /\ Logged(d, "new_batch_1d", args.length, args.batch)
             /\ Question(d.ret, "warmup")
             /\ plan' = IF d.ret.tag = "Ok"
                        THEN [state |-> "Ready", handle |-> d.ret.val.handle]
                        ELSE plan
    /\ UNCHANGED <<cpuVars, args, overflowChecks, total_size, h_data, d_data, start,
                   stop, milliseconds, stdout, exitCode>>

\* Mutant: a failed execute_forward is tried once more before giving up.
MutExecuteRetries(at, next) ==
    /\ pc = at
    /\ \E r \in CufftReturns, rs \in CudaReturns :
         LET d == execute_forward(plan, as_ptr(d_data), r, rs)
             first == \A k \in 1 .. Len(rets) : rets[k].step # at
         IN  /\ Logged(d, "execute_forward", 0, 0)
             /\ IF d.ret.tag = "Err" /\ first
                THEN pc' = at /\ result' = result
                ELSE Question(d.ret, next)
    /\ UNCHANGED <<cpuVars, args, overflowChecks, total_size, h_data, d_data, plan,
                   start, stop, milliseconds, stdout, exitCode>>

\* main.rs:69 and main.rs:83
Execute(at, next) ==
    /\ pc = at
    /\ \E r \in CufftReturns, rs \in CudaReturns :
         LET d == execute_forward(plan, as_ptr(d_data), r, rs)
         IN  /\ Logged(d, "execute_forward", 0, 0)
             /\ Question(d.ret, next)
    /\ UNCHANGED <<cpuVars, args, overflowChecks, total_size, h_data, d_data, plan,
                   start, stop, milliseconds, stdout, exitCode>>

Warmup == Execute("warmup", "copy2")

\* Mutant: the re-upload is done once more after start.record(), inside the
\* timed window.
MutTimedAfterUpload ==
    /\ pc = "timed"
    /\ \E rc \in CudaReturns, r \in CufftReturns, rs \in CudaReturns :
         LET u == copy_from_host(d_data, h_data, overflowChecks, rc)
             d == execute_forward(plan, as_ptr(d_data), r, rs)
             both == IF u.ret.tag = "Ok"
                     THEN Did(d.ret, u.calls \o d.calls, <<>>)
                     ELSE u
         IN  /\ Logged(both, "execute_forward", 0, 0)
             /\ Question(both.ret, "record_stop")
    /\ UNCHANGED <<cpuVars, args, overflowChecks, total_size, h_data, d_data, plan,
                   start, stop, milliseconds, stdout, exitCode>>

Timed == Execute("timed", "record_stop")

\* main.rs:77
CreateStart ==
    /\ pc = "create_start"
    /\ \E r \in CudaReturns :
         LET d == create("start", r)
         IN  /\ Logged(d, "create", 0, 0)
             /\ Question(d.ret, "create_stop")
             /\ start' = IF d.ret.tag = "Ok"
                         THEN [state |-> "live", event |-> d.ret.val.event]
                         ELSE start
    /\ UNCHANGED <<cpuVars, args, overflowChecks, total_size, h_data, d_data, plan,
                   stop, milliseconds, stdout, exitCode>>

\* main.rs:78
CreateStop ==
    /\ pc = "create_stop"
    /\ \E r \in CudaReturns :
         LET d == create("stop", r)
         IN  /\ Logged(d, "create", 0, 0)
             /\ Question(d.ret, "record_start")
             /\ stop' = IF d.ret.tag = "Ok"
                        THEN [state |-> "live", event |-> d.ret.val.event]
                        ELSE stop
    /\ UNCHANGED <<cpuVars, args, overflowChecks, total_size, h_data, d_data, plan,
                   start, milliseconds, stdout, exitCode>>

\* main.rs:82
RecordStart ==
    /\ pc = "record_start"
    /\ \E r \in CudaReturns :
         LET d == record(start, r)
         IN  Logged(d, "record", 0, 0) /\ Question(d.ret, "timed")
    /\ UNCHANGED <<cpuVars, args, overflowChecks, total_size, h_data, d_data, plan,
                   start, stop, milliseconds, stdout, exitCode>>

\* main.rs:84
RecordStop ==
    /\ pc = "record_stop"
    /\ \E r \in CudaReturns :
         LET d == record(stop, r)
         IN  Logged(d, "record", 0, 0) /\ Question(d.ret, "sync_stop")
    /\ UNCHANGED <<cpuVars, args, overflowChecks, total_size, h_data, d_data, plan,
                   start, stop, milliseconds, stdout, exitCode>>

\* Mutant: the Result of stop.synchronize() is dropped instead of propagated.
MutSyncStopIgnoresErr ==
    /\ pc = "sync_stop"
    /\ \E r \in CudaReturns :
         LET d == synchronize(stop, r)
         IN  /\ Logged(d, "synchronize", 0, 0)
             /\ pc' = "elapsed"
             /\ result' = result
    /\ UNCHANGED <<cpuVars, args, overflowChecks, total_size, h_data, d_data, plan,
                   start, stop, milliseconds, stdout, exitCode>>

\* main.rs:85
SyncStop ==
    /\ pc = "sync_stop"
    /\ \E r \in CudaReturns :
         LET d == synchronize(stop, r)
         IN  Logged(d, "synchronize", 0, 0) /\ Question(d.ret, "elapsed")
    /\ UNCHANGED <<cpuVars, args, overflowChecks, total_size, h_data, d_data, plan,
                   start, stop, milliseconds, stdout, exitCode>>

\* Mutant: the Result of elapsed_time is unwrapped with a default instead of
\* propagated, so the record is printed after a failed elapsed_time.
MutElapsedIgnoresErr ==
    /\ pc = "elapsed"
    /\ \E r \in CudaReturns :
         LET d == elapsed_time(start, stop, "ms", r)
         IN  /\ Logged(d, "elapsed_time", 0, 0)
             /\ pc' = "report"
             /\ result' = result
             /\ milliseconds' = IF d.ret.tag = "Ok" THEN d.ret.val
                                ELSE milliseconds
    /\ UNCHANGED <<cpuVars, args, overflowChecks, total_size, h_data, d_data,
                   plan, start, stop, stdout, exitCode>>

\* main.rs:89
Elapsed ==
    /\ pc = "elapsed"
    /\ \E r \in CudaReturns :
         LET d == elapsed_time(start, stop, "ms", r)
         IN  /\ Logged(d, "elapsed_time", 0, 0)
             /\ Question(d.ret, "report")
             /\ milliseconds' = IF d.ret.tag = "Ok" THEN d.ret.val
                                ELSE milliseconds
    /\ UNCHANGED <<cpuVars, args, overflowChecks, total_size, h_data, d_data, plan,
                   start, stop, stdout, exitCode>>

\* main.rs:93-104: the metrics, the two println! and Ok(()).
Report ==
    /\ pc = "report"
    /\ stdout' = stdout \o
         <<[line |-> "header"],
           [line |-> "row", batch |-> args.batch, length |-> args.length,
            ms |-> milliseconds]>>
    /\ result' = [tag |-> "Ok", err |-> NoErr]
    /\ pc' = "drop"
    /\ UNCHANGED <<cpuVars, args, overflowChecks, total_size, h_data, d_data, plan,
                   start, stop, milliseconds, calls, rets, stderr, exitCode>>

\* Mutant: Drop for CudaEvent retries cudaEventDestroy until it succeeds; with
\* a status that stays a failure, the drop of stop never returns.
MutDropStopRetries ==
    /\ pc = "drop"
    /\ stop.state = "live"
    /\ \E r \in CudaReturns :
         /\ Logged(DropCudaEvent(stop, r), "drop_event", 0, 0)
         /\ IF r = cudaSuccess
            THEN pc' = pc /\ stop' = [stop EXCEPT !.state = "dropped"]
            ELSE pc' = "drop_retry" /\ stop' = stop
    /\ UNCHANGED <<cpuVars, args, overflowChecks, total_size, h_data, d_data, plan,
                   start, milliseconds, result, stdout, exitCode>>

\* Leaving main's scope (main.rs:105, or the return of a `?`, or a panic
\* unwinding): the locals that hold a value are dropped in reverse order of
\* declaration: stop, start, plan, d_data.
DropStop ==
    /\ pc = "drop"
    /\ stop.state = "live"
    /\ \E r \in CudaReturns : Logged(DropCudaEvent(stop, r), "drop_event", 0, 0)
    /\ stop' = [stop EXCEPT !.state = "dropped"]
    /\ UNCHANGED <<cpuVars, args, overflowChecks, pc, total_size, h_data, d_data, plan,
                   start, milliseconds, result, stdout, exitCode>>

DropStart ==
    /\ pc = "drop"
    /\ stop.state # "live"
    /\ start.state = "live"
    /\ \E r \in CudaReturns : Logged(DropCudaEvent(start, r), "drop_event", 0, 0)
    /\ start' = [start EXCEPT !.state = "dropped"]
    /\ UNCHANGED <<cpuVars, args, overflowChecks, pc, total_size, h_data, d_data, plan,
                   stop, milliseconds, result, stdout, exitCode>>

DropPlan ==
    /\ pc = "drop"
    /\ stop.state # "live" /\ start.state # "live"
    /\ plan.state = "Ready"
    /\ \E r \in CufftReturns : Logged(DropCufftPlan(plan, r), "drop_plan", 0, 0)
    /\ plan' = [plan EXCEPT !.state = "Destroyed"]
    /\ UNCHANGED <<cpuVars, args, overflowChecks, pc, total_size, h_data, d_data, start,
                   stop, milliseconds, result, stdout, exitCode>>

\* Mutant: d_data is declared last, so it is the first local dropped, before
\* the plan and the events.
MutDropDataFirst ==
    /\ pc = "drop"
    /\ d_data.state = "live"
    /\ \E r \in CudaReturns : Logged(DropCudaBuffer(d_data, r), "drop_buffer", 0, 0)
    /\ d_data' = [d_data EXCEPT !.state = "dropped"]
    /\ UNCHANGED <<cpuVars, args, overflowChecks, pc, total_size, h_data, plan,
                   start, stop, milliseconds, result, stdout, exitCode>>

DropData ==
    /\ pc = "drop"
    /\ stop.state # "live" /\ start.state # "live" /\ plan.state # "Ready"
    /\ d_data.state = "live"
    /\ \E r \in CudaReturns : Logged(DropCudaBuffer(d_data, r), "drop_buffer", 0, 0)
    /\ d_data' = [d_data EXCEPT !.state = "dropped"]
    /\ UNCHANGED <<cpuVars, args, overflowChecks, pc, total_size, h_data, plan, start,
                   stop, milliseconds, result, stdout, exitCode>>

\* The process ends with main's value: Ok(()) exits 0; Err(e) prints
\* "Error: {e:?}" and exits 1; a panic exits 101 (its message was printed when
\* it was raised).
ExitCodeOf(res) ==
    IF res.tag = "Ok" THEN 0 ELSE IF res.tag = "Err" THEN 1 ELSE 101

Exit ==
    /\ pc = "drop"
    /\ stop.state # "live" /\ start.state # "live" /\ plan.state # "Ready"
    /\ d_data.state # "live"
    /\ exitCode' = ExitCodeOf(result)
    /\ stderr' = IF result.tag = "Err"
                 THEN Append(stderr, [kind |-> "error", what |-> "main",
                                      err |-> result.err])
                 ELSE stderr
    /\ pc' = "done"
    /\ UNCHANGED <<cpuVars, args, overflowChecks, total_size, h_data, d_data, plan,
                   start, stop, milliseconds, result, calls, rets, stdout>>

Next ==
    \/ TotalSize \/ Generate \/ Alloc \/ Copy1 \/ NewPlan \/ Warmup \/ Copy2
    \/ CreateStart \/ CreateStop \/ RecordStart \/ Timed \/ RecordStop
    \/ SyncStop \/ Elapsed \/ Report
    \/ DropStop \/ DropStart \/ DropPlan \/ DropData \/ Exit

Spec == Init /\ [][Next]_vars

\* main is one sequential thread: as long as it has a next step (every
\* foreign call returns), it takes it.
FairSpec == Spec /\ WF_vars(Next)

(***************************************************************************)
(* A caller of the public CudaBuffer API other than main: it allocates one *)
(* buffer, uploads host slices of any length to it, and leaves its scope.  *)
(***************************************************************************)
\* Lengths tried: small ones and one whose byte count overflows usize.
ApiLens == {0, 1, 2, Pow2(UsizeBits - 3)}

InitApi ==
    /\ args = [batch |-> 1, length |-> 1]
    /\ overflowChecks \in BOOLEAN
    /\ pc = "api_alloc"
    /\ total_size = 0
    /\ h_data = 0
    /\ d_data = NoBuffer
    /\ plan = NoPlan
    /\ start = NoEvent
    /\ stop = NoEvent
    /\ milliseconds = Unspecified
    /\ result = Running
    /\ calls = <<>>
    /\ rets = <<>>
    /\ stdout = <<>>
    /\ stderr = <<>>
    /\ exitCode = NotExited
    /\ CpuIdle

\* let mut buf = CudaBuffer::<Complex32>::alloc(n)?;
ApiAlloc ==
    /\ pc = "api_alloc"
    /\ \E n \in ApiLens, r \in CudaReturns :
         LET d == alloc(n, overflowChecks, "d_data", r)
         IN  /\ Logged(d, "alloc", n, 0)
             /\ Question(d.ret, "api")
             /\ d_data' = IF d.ret.tag = "Ok"
                          THEN [state |-> "live", ptr |-> d.ret.val.ptr,
                                len |-> d.ret.val.len]
                          ELSE d_data
    /\ UNCHANGED <<cpuVars, args, overflowChecks, total_size, h_data, plan, start, stop,
                   milliseconds, stdout, exitCode>>

\* let _ = buf.copy_from_host(&host[..n]);  the caller keeps going after an
\* Err; a panic unwinds out of the caller.
ApiCopy ==
    /\ pc = "api"
    /\ Len(rets) <= MaxApiCopies
    /\ \E n \in ApiLens, r \in CudaReturns :
         LET d == copy_from_host(d_data, n, overflowChecks, r)
         IN  /\ Logged(d, "copy_from_host", d_data.len, n)
             /\ IF d.ret.tag = "Panic"
                THEN pc' = "drop" /\ result' = [tag |-> "Panic", err |-> d.ret.err]
                ELSE pc' = "api" /\ result' = result
             /\ h_data' = n
    /\ UNCHANGED <<cpuVars, args, overflowChecks, total_size, d_data, plan, start, stop,
                   milliseconds, stdout, exitCode>>

\* The caller returns Ok(()).
ApiReturn ==
    /\ pc = "api"
    /\ pc' = "drop"
    /\ result' = [tag |-> "Ok", err |-> NoErr]
    /\ UNCHANGED <<cpuVars, args, overflowChecks, total_size, h_data, d_data, plan,
                   start, stop, milliseconds, calls, rets, stdout, stderr,
                   exitCode>>

NextApi == ApiAlloc \/ ApiCopy \/ ApiReturn \/ DropData \/ Exit

SpecApi == InitApi /\ [][NextApi]_vars

(***************************************************************************)
(* A caller of the public CufftPlan API other than main: it allocates a    *)
(* buffer of any length, builds a plan for args.length x args.batch, runs  *)
(* execute_forward on the buffer's pointer and leaves its scope.           *)
(***************************************************************************)
PlanApiLens == {0, 1, 2, 4}
PlanApiDims == {1, 2}

InitPlanApi ==
    /\ args \in [batch : PlanApiDims, length : PlanApiDims]
    /\ overflowChecks \in BOOLEAN
    /\ pc = "plan_api_alloc"
    /\ total_size = 0
    /\ h_data = 0
    /\ d_data = NoBuffer
    /\ plan = NoPlan
    /\ start = NoEvent
    /\ stop = NoEvent
    /\ milliseconds = Unspecified
    /\ result = Running
    /\ calls = <<>>
    /\ rets = <<>>
    /\ stdout = <<>>
    /\ stderr = <<>>
    /\ exitCode = NotExited
    /\ CpuIdle

\* let buf = CudaBuffer::<Complex32>::alloc(n)?;
PlanApiAlloc ==
    /\ pc = "plan_api_alloc"
    /\ \E n \in PlanApiLens, r \in CudaReturns :
         LET d == alloc(n, overflowChecks, "d_data", r)
         IN  /\ Logged(d, "alloc", n, 0)
             /\ Question(d.ret, "plan_api_new")
             /\ d_data' = IF d.ret.tag = "Ok"
                          THEN [state |-> "live", ptr |-> d.ret.val.ptr,
                                len |-> d.ret.val.len]
                          ELSE d_data
    /\ UNCHANGED <<cpuVars, args, overflowChecks, total_size, h_data, plan, start, stop,
                   milliseconds, stdout, exitCode>>

\* let plan = CufftPlan::new_batch_1d(length, batch)?;
PlanApiNew ==
    /\ pc = "plan_api_new"
    /\ \E r \in CufftReturns :
         LET d == new_batch_1d(args.length, args.batch, "plan", r)
         IN  /\ Logged(d, "new_batch_1d", args.length, args.batch)
             /\ Question(d.ret, "plan_api_exec")
             /\ plan' = IF d.ret.tag = "Ok"
                        THEN [state |-> "Ready", handle |-> d.ret.val.handle]
                        ELSE plan
    /\ UNCHANGED <<cpuVars, args, overflowChecks, total_size, h_data, d_data, start,
                   stop, milliseconds, stdout, exitCode>>

\* plan.execute_forward(buf.as_ptr())?;  then Ok(()).
PlanApiExecute ==
    /\ pc = "plan_api_exec"
    /\ \E r \in CufftReturns, rs \in CudaReturns :
         LET d == execute_forward(plan, as_ptr(d_data), r, rs)
         IN  /\ Logged(d, "execute_forward", d_data.len, 0)
             /\ pc' = "drop"
             /\ result' = [tag |-> d.ret.tag, err |-> d.ret.err]
    /\ UNCHANGED <<cpuVars, args, overflowChecks, total_size, h_data, d_data, plan,
                   start, stop, milliseconds, stdout, exitCode>>

NextPlanApi ==
    PlanApiAlloc \/ PlanApiNew \/ PlanApiExecute \/ DropPlan \/ DropData \/ Exit

SpecPlanApi == InitPlanApi /\ [][NextPlanApi]_vars

(***************************************************************************)
(* src/main.rs: the CPU benchmark and perform_batch_fft.                   *)
(***************************************************************************)
\* A Complex32 sample is modelled exactly, as an element of the field of
\* integers modulo 13: it has the roots of unity of order 1, 2 and 4 (powers
\* of 2, whose order is 12), which is all the algebra a transform of these
\* lengths uses.  Rounding is not modelled.
Sample(x) == x % 13

RECURSIVE Power(_, _)
Power(w, e) == IF e = 0 THEN 1 ELSE Sample(w * Power(w, e - 1))

\* exp(2 pi i / L), for L in {1, 2, 4}.
RootOfUnity(L) == Sample(Pow2(12 \div L))

\* cos x = (exp(i x) + exp(-i x)) / 2, and 1/2 is 7.
Half == Sample(7)

\* The signals a slot may hold: test_batch_fft's complex exponential of
\* frequency f (main.rs:245), main's cosine of frequency f (main.rs:43) and
\* a unit impulse.
ComplexExponential(f, L) ==
    [n \in 1 .. L |-> Power(RootOfUnity(L), f * (n - 1))]
Cosine(f, L) ==
    [n \in 1 .. L |-> Sample(Half * (Power(RootOfUnity(L), f * (n - 1))
                                     + Power(RootOfUnity(L), (L - 1) * f * (n - 1))))]
Impulse(L) == [n \in 1 .. L |-> IF n = 1 THEN 1 ELSE 0]
SlotSignals(L) ==
    {ComplexExponential(f, L) : f \in 0 .. L - 1}
      \cup {Cosine(f, L) : f \in 0 .. L - 1} \cup {Impulse(L)}

RECURSIVE Flatten(_)
Flatten(ss) == IF ss = <<>> THEN <<>> ELSE Head(ss) \o Flatten(Tail(ss))
\* The contiguous arrays of `batch` signals of length L.
Datasets(batch, L) == {Flatten(ss) : ss \in [1 .. batch -> SlotSignals(L)]}

\* Mutant: the inverse transform is planned.
MutPlanFftInverse(length) ==
    [len |-> length,
     twiddle |-> IF length = 0 THEN 1 ELSE RootOfUnity(length)]

\* FftPlanner::plan_fft_forward(length): the forward transform multiplies by
\* powers of exp(-2 pi i / length).
plan_fft_forward(length) ==
    [len |-> length,
     twiddle |-> IF length = 0 THEN 1
                 ELSE Power(RootOfUnity(length), length - 1)]

RECURSIVE Bin(_, _, _, _)
\* sum over the first n samples of signal[m] * w^(k * (m - 1))
Bin(signal, w, k, n) ==
    IF n = 0 THEN 0
    ELSE Sample(Bin(signal, w, k, n - 1) + signal[n] * Power(w, k * (n - 1)))

\* Fft::process_with_scratch(signal, scratch), in place: the signal's
\* transform; it panics on a buffer that is not one transform long.
process_with_scratch(plnd, signal) ==
    IF Len(signal) # plnd.len
    THEN Panic("input buffer length does not match the FFT length")
    ELSE Ok([k \in 1 .. Len(signal) |->
               Bin(signal, plnd.twiddle, k - 1, Len(signal))])

Min(a, b) == IF a < b THEN a ELSE b

\* Mutant: each chunk runs one element into the next one.
MutChunksOverlap(n, chunk_size) ==
    [u \in 1 .. ((n + chunk_size - 1) \div chunk_size) |->
       [lo |-> (u - 1) * chunk_size + 1, hi |-> Min(u * chunk_size + 1, n)]]

\* data.par_chunks_mut(chunk_size) on n elements: consecutive index ranges of
\* chunk_size elements, the last one shorter when n is not a multiple.
par_chunks_mut(n, chunk_size) ==
    [u \in 1 .. ((n + chunk_size - 1) \div chunk_size) |->
       [lo |-> (u - 1) * chunk_size + 1, hi |-> Min(u * chunk_size, n)]]

\* Command lines tried.  --threads 0 makes rayon choose the thread count
\* itself, here 1 or 2.
CpuBatches == {0, 1, 2, 3}
CpuLengths == {0, 1, 2, 4}
CpuThreads == {0, 1, 2}
AvailableParallelism == {1, 2}

gpuVars == <<overflowChecks, h_data, d_data, plan, start, stop, milliseconds,
             result, calls, rets>>

InitCpu ==
    /\ args \in [batch : CpuBatches, length : CpuLengths, threads : CpuThreads]
    /\ overflowChecks = FALSE
    /\ pc = "build_pool"
    /\ total_size = 0
    /\ h_data = 0
    /\ d_data = NoBuffer
    /\ plan = NoPlan
    /\ start = NoEvent
    /\ stop = NoEvent
    /\ milliseconds = Unspecified
    /\ result = Running
    /\ calls = <<>>
    /\ rets = <<>>
    /\ stdout = <<>>
    /\ stderr = <<>>
    /\ exitCode = NotExited
    /\ CpuIdle

\* main.rs:28-31
BuildPool ==
    /\ pc = "build_pool"
    /\ \E n \in (IF args.threads = 0 THEN AvailableParallelism
                                     ELSE {args.threads}) : workers' = n
    /\ pc' = "generate_data"
    /\ UNCHANGED <<gpuVars, args, total_size, stdout, stderr, exitCode, data,
                   input, fft, units, touched, scratch>>

\* main.rs:35-44, or the input of another caller such as test_batch_fft.
GenerateData ==
    /\ pc = "generate_data"
    /\ total_size' = args.batch * args.length
    /\ data' \in Datasets(args.batch, args.length)
    /\ pc' = "perform_batch_fft"
    /\ UNCHANGED <<gpuVars, args, stdout, stderr, exitCode, workers, input,
                   fft, units, touched, scratch>>

\* main.rs:62-69: the plan is made and the array split into chunks of
\* `length` elements; par_chunks_mut panics on a chunk size of 0.
PerformBatchFft ==
    /\ pc = "perform_batch_fft"
    /\ input' = data
    /\ fft' = plan_fft_forward(args.length)
    /\ IF args.length = 0
       THEN /\ pc' = "done"
            /\ exitCode' = 101
            /\ stderr' = Append(stderr,
                   [kind |-> "panic", what |-> "par_chunks_mut",
                    err |-> Panic("chunk_size must not be zero").err])
            /\ UNCHANGED <<units, touched>>
       ELSE /\ pc' = "for_each"
            /\ units' = [u \in DOMAIN par_chunks_mut(Len(data), args.length) |->
                           [lo |-> par_chunks_mut(Len(data), args.length)[u].lo,
                            hi |-> par_chunks_mut(Len(data), args.length)[u].hi,
                            state |-> "pending", signal |-> <<>>,
                            scratch |-> 0]]
            /\ touched' = [i \in 1 .. Len(data) |-> {}]
            /\ UNCHANGED <<stderr, exitCode>>
    /\ UNCHANGED <<gpuVars, args, total_size, stdout, workers, data, scratch>>

\* The units a pool thread is working on.
RunningUnits == {u \in DOMAIN units : units[u].state = "running"}
\* touched, after unit u accessed the elements lo .. hi.
Touch(u, lo, hi) ==
    [i \in DOMAIN touched |->
       IF lo <= i /\ i <= hi THEN touched[i] \cup {u} ELSE touched[i]]

\* main.rs:70-74, first half: a free pool thread takes chunk u, allocates the
\* closure's scratch buffer and the transform reads the chunk.
UnitStart(u) ==
    /\ pc = "for_each"
    /\ units[u].state = "pending"
    /\ Cardinality(RunningUnits) < workers
    /\ scratch' = Append(scratch, [owner |-> u, users |-> {u}])
    /\ units' = [units EXCEPT ![u].state = "running",
                              ![u].signal = SubSeq(data, units[u].lo, units[u].hi),
                              ![u].scratch = Len(scratch) + 1]
    /\ touched' = Touch(u, units[u].lo, units[u].hi)
    /\ UNCHANGED <<gpuVars, args, pc, total_size, stdout, stderr, exitCode,
                   workers, data, input, fft>>

\* main.rs:74, second half: the transform of what was read is written over
\* the chunk, using the closure's scratch; a panic in the closure is
\* propagated to main.
UnitFinish(u) ==
    /\ pc = "for_each"
    /\ units[u].state = "running"
    /\ LET out == process_with_scratch(fft, units[u].signal)
       IN  IF out.tag = "Panic"
           THEN /\ pc' = "done"
                /\ exitCode' = 101
                /\ stderr' = Append(stderr,
                       [kind |-> "panic", what |-> "process_with_scratch",
                        err |-> out.err])
                /\ UNCHANGED <<data, units, touched, scratch>>
           ELSE /\ data' = [i \in DOMAIN data |->
                              IF units[u].lo <= i /\ i <= units[u].hi
                              THEN out.val[i - units[u].lo + 1] ELSE data[i]]
                /\ units' = [units EXCEPT ![u].state = "done"]
                /\ touched' = Touch(u, units[u].lo, units[u].hi)
                /\ scratch' = [scratch EXCEPT ![units[u].scratch].users = @ \cup {u}]
                /\ UNCHANGED <<pc, stderr, exitCode>>
    /\ UNCHANGED <<gpuVars, args, total_size, stdout, workers, input, fft>>

\* main.rs:49-58: for_each returns when every chunk is done; the record is
\* printed.
CpuReport ==
    /\ pc = "for_each"
    /\ \A u \in DOMAIN units : units[u].state = "done"
    /\ stdout' = stdout \o
         <<[line |-> "header"],
           [line |-> "row", batch |-> args.batch, length |-> args.length,
            threads |-> args.threads]>>
    /\ exitCode' = 0
    /\ pc' = "done"
    /\ UNCHANGED <<gpuVars, args, total_size, stderr, workers, data, input,
                   fft, units, touched, scratch>>

NextCpu ==
    \/ BuildPool \/ GenerateData \/ PerformBatchFft
    \/ \E u \in DOMAIN units : UnitStart(u)
    \/ \E u \in DOMAIN units : UnitFinish(u)
    \/ CpuReport

SpecCpu == InitCpu /\ [][NextCpu]_vars

(***************************************************************************)
(* Reading the logs.                                                       *)
(***************************************************************************)
Calls == 1 .. Len(calls)
Rets == 1 .. Len(rets)

\* The resources main owns, by the handle the library gave out, with the
\* foreign function that creates and the one that releases each.
Handles == {"d_data", "plan", "start", "stop"}
CreateFn(h) == IF h = "d_data" THEN "cudaMalloc"
               ELSE IF h = "plan" THEN "cufftPlanMany" ELSE "cudaEventCreate"
ReleaseFn(h) == IF h = "d_data" THEN "cudaFree"
                ELSE IF h = "plan" THEN "cufftDestroy" ELSE "cudaEventDestroy"
ReleaseFns == {"cudaFree", "cufftDestroy", "cudaEventDestroy"}
DropOps == {"drop_buffer", "drop_plan", "drop_event"}

\* cudaSuccess and CUFFT_SUCCESS are both 0.
Succeeded(c) == c.res = 0

CreationsOf(h) == {i \in Calls : calls[i].fn = CreateFn(h) /\ calls[i].h = h
                                 /\ Succeeded(calls[i])}
ReleasesOf(h) == {i \in Calls : calls[i].fn = ReleaseFn(h) /\ calls[i].h = h}
AllReleases == {i \in Calls : calls[i].fn \in ReleaseFns}
FailedReleases == {i \in AllReleases : ~Succeeded(calls[i])}

\* The wrapper invocations of main's steps that did not return Ok.
FailedSteps == {k \in Rets : rets[k].op \notin DropOps /\ rets[k].tag # "Ok"}

\* C1: in every run of main each release call is issued for a resource whose
\* creation succeeded, after that creation and at most once, and when the
\* run has ended every resource whose creation succeeded has been released
\* exactly once (a resource whose creation failed: zero times).
C1_ReleasedExactlyOnce ==
    /\ \A h \in Handles :
         /\ Cardinality(ReleasesOf(h)) <= 1
         /\ Cardinality(CreationsOf(h)) <= 1
         /\ \A i \in ReleasesOf(h) : \E j \in CreationsOf(h) : j < i
    /\ \A i \in AllReleases : \E h \in Handles : i \in ReleasesOf(h)
    /\ pc = "done" =>
         \A h \in Handles :
           Cardinality(ReleasesOf(h)) = Cardinality(CreationsOf(h))

\* A run that stopped at the failure of the second event creation has ended:
\* buffer, plan and first event were created and released, the second event
\* was neither.
C1_Witness ==
    /\ pc = "done"
    /\ result.tag = "Err"
    /\ CreationsOf("d_data") # {} /\ CreationsOf("plan") # {}
    /\ CreationsOf("start") # {} /\ CreationsOf("stop") = {}
    /\ \E i \in Calls : calls[i].fn = "cudaEventCreate" /\ ~Succeeded(calls[i])

\* C2: a release call that returns a non-success status produces one warning
\* and nothing else: the Drop returns normally, main's value stays what it
\* was, and when the run has ended every other resource has still been
\* released and the exit code and error report are those of the steps alone
\* (0 when no step failed, else the first failed step's error).
C2_ReleaseFailureOnlyWarns ==
    /\ \A i \in FailedReleases : rets[calls[i].inv].tag = "Ok"
    /\ Cardinality({k \in 1 .. Len(stderr) : stderr[k].kind = "warning"})
         = Cardinality(FailedReleases)
    /\ \A i \in FailedReleases :
         \E k \in 1 .. Len(stderr) :
           /\ stderr[k].kind = "warning"
           /\ stderr[k].what = calls[i].fn
           /\ stderr[k].err.code = calls[i].res
    /\ (pc \in {"drop", "done"} /\ FailedReleases # {}) =>
         /\ FailedSteps = {} => result.tag \in {"Ok", "Panic"}
         /\ \A k \in FailedSteps : result = [tag |-> rets[k].tag,
                                             err |-> rets[k].err]
    /\ (pc = "done" /\ FailedReleases # {}) =>
         /\ exitCode = ExitCodeOf(result)
         /\ \A h \in Handles : CreationsOf(h) # {} => ReleasesOf(h) # {}
         /\ \A k \in 1 .. Len(stderr) :
              stderr[k].kind = "error" => stderr[k].err = result.err

\* A successful run has ended with exit code 0 although the first release
\* (of the stop event) failed, and the buffer was released after it.
C2_Witness ==
    /\ pc = "done"
    /\ exitCode = 0
    /\ \E i \in FailedReleases :
         /\ calls[i].h = "stop"
         /\ \E j \in ReleasesOf("d_data") : j > i

\* The wrapper invocations main makes, by position.
DriverSteps == {"alloc", "copy1", "plan", "warmup", "copy2", "create_start",
                "create_stop", "record_start", "timed", "record_stop",
                "sync_stop", "elapsed"}
CallsOf(k) == {i \in Calls : calls[i].inv = k}
StepSucceeded(st) ==
    \E k \in Rets : /\ rets[k].step = st
                    /\ rets[k].tag = "Ok"
                    /\ CallsOf(k) # {}
                    /\ \A i \in CallsOf(k) : Succeeded(calls[i])

\* C3: when main has ended, the exit code is 0 exactly when each of the
\* twelve steps was made and returned success; a step that failed (or a
\* foreign call of a step that returned a failure status) gives a non-zero
\* exit code, and a non-zero exit comes with a message on standard error.
C3_ExitZeroIffAllStepsSucceeded ==
    pc = "done" =>
      /\ exitCode = 0 <=> \A st \in DriverSteps : StepSucceeded(st)
      /\ FailedSteps # {} => exitCode # 0
      /\ (\E i \in Calls : calls[i].fn \notin ReleaseFns /\ ~Succeeded(calls[i]))
           => exitCode # 0
      /\ exitCode # 0 =>
           \E k \in 1 .. Len(stderr) : stderr[k].kind \in {"error", "panic"}

\* Both outcomes are reached: this one is a run that ended with exit code 0.
C3_Witness ==
    /\ pc = "done"
    /\ exitCode = 0
    /\ \A st \in DriverSteps : StepSucceeded(st)

\* C6 as claimed: whenever cufftExecC2C is issued, the buffer handed to it
\* has as many elements as the plan was configured for in cufftPlanMany
\* (transform size times batch count).
C6_BufferMatchesPlan ==
    \A i \in Calls :
      calls[i].fn = "cufftExecC2C" =>
        /\ calls[i].h2 = d_data.ptr
        /\ \E j \in CreationsOf("plan") :
             j < i /\ d_data.len = calls[j].x * calls[j].y

ExecInvocations == {k \in Rets : rets[k].op = "execute_forward"}

\* C7 as claimed: every cufftExecC2C that was issued is followed, inside the
\* same execute_forward, by cudaDeviceSynchronize, and execute_forward
\* returns Ok only when both returned success.
C7_SyncAfterEveryTransform ==
    \A i \in Calls :
      calls[i].fn = "cufftExecC2C" =>
        /\ \E j \in CallsOf(calls[i].inv) :
             j > i /\ calls[j].fn = "cudaDeviceSynchronize"
        /\ rets[calls[i].inv].tag = "Ok" =>
             \A j \in CallsOf(calls[i].inv) : Succeeded(calls[j])

\* C7 amended: every execute_forward issues cufftExecC2C once; when that
\* returned success it calls cudaDeviceSynchronize once, next, before it
\* returns, and returns Ok exactly when the synchronization succeeded too;
\* when cufftExecC2C returned a failure it returns that failure without
\* synchronizing.
C7_SyncAfterSuccessfulTransform ==
    \A k \in ExecInvocations :
      LET ex == {i \in CallsOf(k) : calls[i].fn = "cufftExecC2C"}
          sy == {i \in CallsOf(k) : calls[i].fn = "cudaDeviceSynchronize"}
      IN  /\ Cardinality(ex) = 1
          /\ CallsOf(k) = ex \cup sy
          /\ \A i \in ex :
               IF Succeeded(calls[i])
               THEN /\ sy = {i + 1}
                    /\ rets[k].tag = "Ok" <=> Succeeded(calls[i + 1])
                    /\ rets[k].tag \in {"Ok", "Err"}
               ELSE /\ sy = {}
                    /\ rets[k].tag = "Err"
                    /\ rets[k].err.code = calls[i].res

\* An execute_forward whose transform succeeded and whose synchronization
\* failed has returned Err.
C7_Witness ==
    \E k \in ExecInvocations :
      /\ rets[k].tag = "Err"
      /\ \E i \in CallsOf(k) :
           calls[i].fn = "cudaDeviceSynchronize" /\ ~Succeeded(calls[i])

WrapperOps == {"alloc", "copy_from_host", "create", "record", "synchronize",
               "elapsed_time", "new_batch_1d", "execute_forward",
               "cuda_device_synchronize"}
OutputFns == {"cudaMalloc", "cudaEventCreate", "cufftPlanMany",
              "cudaEventElapsedTime"}
LastCallOf(k) == CHOOSE i \in CallsOf(k) : \A j \in CallsOf(k) : j <= i

\* C8: in every wrapper operation a foreign call that returned a status
\* other than success is the operation's last foreign call, its output
\* parameter is not read, and the operation returns Err carrying that status;
\* a call that returned success lets the operation go on: its output
\* parameter (if any) is read, and an operation all of whose calls returned
\* success returns Ok.
C8_NonSuccessShortCircuits ==
    \A i \in Calls :
      calls[i].op \in WrapperOps =>
        LET k == calls[i].inv
        IN  IF Succeeded(calls[i])
            THEN /\ calls[i].fn \in OutputFns => calls[i].outRead
                 /\ i = LastCallOf(k) => rets[k].tag = "Ok"
            ELSE /\ ~calls[i].outRead
                 /\ i = LastCallOf(k)
                 /\ rets[k].tag = "Err"
                 /\ rets[k].err.code = calls[i].res

\* Each of the nine wrapper operations has issued a foreign call, and the
\* last one (cudaEventElapsedTime) returned a failure status.
C8_Witness ==
    /\ \A op \in WrapperOps : \E i \in Calls : calls[i].op = op
    /\ \E i \in Calls :
         calls[i].fn = "cudaEventElapsedTime" /\ ~Succeeded(calls[i])

\* One step of the plan: Uninitialized -> Ready only with a cufftPlanMany
\* that returned success and stored the handle; Ready -> Destroyed only with
\* a cufftDestroy of that handle; nothing else changes the plan.
PlanStep ==
    \/ plan' = plan
    \/ /\ plan.state = "Uninitialized" /\ plan'.state = "Ready"
       /\ Len(calls') = Len(calls) + 1
       /\ LET c == calls'[Len(calls')]
          IN  c.fn = "cufftPlanMany" /\ Succeeded(c) /\ c.h = plan'.handle
    \/ /\ plan.state = "Ready" /\ plan'.state = "Destroyed"
       /\ plan'.handle = plan.handle
       /\ Len(calls') = Len(calls) + 1
       /\ LET c == calls'[Len(calls')]
          IN  c.fn = "cufftDestroy" /\ c.h = plan.handle

\* In every state: a plan that is not Uninitialized came from a successful
\* cufftPlanMany, a new_batch_1d that failed left the plan Uninitialized, and
\* every cufftExecC2C was issued on the handle of a plan created before it
\* and not destroyed before it.
PlanUsedOnlyWhenReady ==
    /\ plan.state # "Uninitialized" => CreationsOf(plan.handle) # {}
    /\ (\E k \in Rets : rets[k].op = "new_batch_1d" /\ rets[k].tag # "Ok")
         => plan.state = "Uninitialized"
    /\ plan.state = "Destroyed" <=> ReleasesOf("plan") # {}
    /\ \A i \in Calls :
         calls[i].fn = "cufftExecC2C" =>
           /\ \E j \in CreationsOf("plan") : j < i /\ calls[i].h = calls[j].h
           /\ \A j \in ReleasesOf("plan") : i < j

\* C9: the plan goes Uninitialized -> Ready -> Destroyed and no other way (a
\* failed new_batch_1d leaves it Uninitialized, Ready never goes back,
\* Destroyed never changes), and cufftExecC2C is only ever issued on a Ready
\* plan.
C9_PlanLifecycle == [][PlanStep]_vars /\ []PlanUsedOnlyWhenReady

\* The plan was constructed, executed twice and destroyed.
C9_Witness ==
    /\ plan.state = "Destroyed"
    /\ Cardinality({i \in Calls : calls[i].fn = "cufftExecC2C"}) = 2

RecordsOf(h) == {i \in Calls : calls[i].fn = "cudaEventRecord" /\ calls[i].h = h}

\* C10: each event is recorded at most once and stop only after start;
\* between the two records there is exactly one execute_forward (one
\* cufftExecC2C and its synchronization) and no cudaMemcpy, cudaMalloc or
\* cufftPlanMany; every upload and the warm-up execution come before the
\* record of start.
C10_TimedWindow ==
    /\ Cardinality(RecordsOf("start")) <= 1
    /\ Cardinality(RecordsOf("stop")) <= 1
    /\ \A j \in RecordsOf("stop") : \E i \in RecordsOf("start") : i < j
    /\ \A i \in RecordsOf("start") :
         /\ \A m \in Calls :
              (calls[m].fn \in {"cudaMemcpy", "cudaMalloc", "cufftPlanMany"}
               \/ calls[m].step = "warmup") => m < i
         /\ \A j \in RecordsOf("stop") :
              LET mid == {m \in Calls : i < m /\ m < j}
              IN  /\ Cardinality({m \in mid : calls[m].fn = "cufftExecC2C"}) = 1
                  /\ Cardinality({calls[m].inv : m \in mid}) = 1
                  /\ \A m \in mid : /\ rets[calls[m].inv].op = "execute_forward"
                                    /\ calls[m].fn \in {"cufftExecC2C",
                                                        "cudaDeviceSynchronize"}

\* Both events have been recorded.
C10_Witness ==
    /\ RecordsOf("start") # {}
    /\ RecordsOf("stop") # {}

Uploads == {k \in Rets : rets[k].op = "copy_from_host"}
\* The uploads given a host slice whose length is not the buffer's len.
Mismatched == {k \in Uploads : rets[k].x # rets[k].y}

\* C4: an upload whose host slice length differs from the buffer's len issues
\* no foreign call, and every cudaMemcpy that is issued is given the buffer's
\* pointer and a host slice of exactly the buffer's len.
C4_NoMemcpyOnMismatch ==
    /\ \A k \in Mismatched : CallsOf(k) = {}
    /\ \A i \in Calls :
         calls[i].fn = "cudaMemcpy" =>
           /\ calls[i].h = d_data.ptr
           /\ calls[i].y = d_data.len
           /\ calls[i].x = WrappingMul(d_data.len, SizeOfT)

\* After an upload that reached cudaMemcpy, an upload with a slice of another
\* length has been rejected.
C4_Witness ==
    /\ Mismatched # {}
    /\ \E i \in Calls : calls[i].fn = "cudaMemcpy"

\* C5 as claimed: an upload with a mismatched length returns to its caller an
\* error of its own kind (not a cudaError_t or cufftResult status) and does
\* not panic; the buffer is still released exactly once when the caller ends.
C5_MismatchIsLocalError ==
    /\ \A k \in Mismatched :
         /\ rets[k].tag = "Err"
         /\ rets[k].err.type \notin {"cudaError_t", "cufftResult"}
    /\ (pc = "done" /\ CreationsOf("d_data") # {}) =>
         Cardinality(ReleasesOf("d_data")) = 1


\* The foreign calls that write the device buffer.
BufferWrites == {i \in Calls : calls[i].fn \in {"cudaMemcpy", "cufftExecC2C"}}
\* The successful uploads of the whole host input: all h_data elements, as
\* many bytes as they occupy, into d_data.
FullUploads ==
    {i \in Calls : /\ calls[i].fn = "cudaMemcpy"
                   /\ Succeeded(calls[i])
                   /\ rets[calls[i].inv].tag = "Ok"
                   /\ calls[i].h = d_data.ptr
                   /\ calls[i].h2 = "host"
                   /\ calls[i].y = h_data
                   /\ calls[i].x = h_data * SizeOfT}
ExecsAt(st) == {i \in Calls : calls[i].fn = "cufftExecC2C" /\ calls[i].step = st}

\* C11: the timed transform is issued on a buffer that holds the host input:
\* the last write of the buffer before it is a successful upload of the whole
\* (never modified) host input that comes after the warm-up transform; and
\* the warm-up transform is preceded by exactly one write of the buffer, the
\* successful first upload.
C11_TimedRunsOnFreshUpload ==
    /\ \A t \in ExecsAt("timed") :
         \E w \in ExecsAt("warmup"), m \in FullUploads :
           /\ w < m /\ m < t
           /\ \A i \in BufferWrites : ~(m < i /\ i < t)
    /\ \A w \in ExecsAt("warmup") :
         \E m \in FullUploads :
           {i \in BufferWrites : i < w} = {m}
    /\ \A i, j \in Calls :
         (calls[i].fn = "cudaMemcpy" /\ calls[j].fn = "cudaMemcpy")
           => calls[i].y = calls[j].y /\ calls[i].h2 = calls[j].h2

\* The timed transform has been issued (on a non-empty input).
C11_Witness ==
    /\ ExecsAt("timed") # {}
    /\ \E m \in FullUploads : calls[m].y > 0


ElapsedCalls == {i \in Calls : calls[i].fn = "cudaEventElapsedTime"}
SyncsOf(h) == {i \in Calls : calls[i].fn = "cudaEventSynchronize" /\ calls[i].h = h}
\* The record and synchronize calls of the two events that failed.
FailedTimingCalls ==
    {i \in Calls : /\ calls[i].fn \in {"cudaEventRecord", "cudaEventSynchronize"}
                   /\ ~Succeeded(calls[i])}

\* C12: cudaEventElapsedTime is called at most once, for (start, stop), and
\* only after a successful record of start, then a successful record of stop,
\* then a successful synchronization of stop; in a run in which a record or a
\* synchronization failed it is never called.
C12_ElapsedOnlyAfterRecordedAndSynced ==
    /\ Cardinality(ElapsedCalls) <= 1
    /\ \A e \in ElapsedCalls :
         /\ calls[e].h = "start" /\ calls[e].h2 = "stop"
         /\ \E i \in RecordsOf("start"), j \in RecordsOf("stop"),
               s \in SyncsOf("stop") :
              /\ i < j /\ j < s /\ s < e
              /\ Succeeded(calls[i]) /\ Succeeded(calls[j])
              /\ Succeeded(calls[s])
              /\ rets[calls[i].inv].tag = "Ok"
              /\ rets[calls[j].inv].tag = "Ok"
              /\ rets[calls[s].inv].tag = "Ok"
    /\ FailedTimingCalls # {} => ElapsedCalls = {}
    /\ (pc = "done" /\ FailedTimingCalls # {}) => stdout = <<>>

\* Both cases are reached: here the duration has been read; a run that ended
\* at a failed synchronization of stop is C12_SyncFailedWitness.
C12_Witness ==
    /\ ElapsedCalls # {}
    /\ \E e \in ElapsedCalls : Succeeded(calls[e])

C12_SyncFailedWitness ==
    /\ pc = "done"
    /\ \E s \in SyncsOf("stop") : ~Succeeded(calls[s])


\* The foreign calls of construction and operation (all but the releases)
\* that returned a failure status.
FailedOperations == {i \in Calls : calls[i].fn \notin ReleaseFns
                                   /\ ~Succeeded(calls[i])}

\* C13: after a construction or operation call has failed, the only foreign
\* calls issued are releases of resources created before the failure; and
\* nothing is retried: each step of main is made at most once and issues each
\* of its foreign calls at most once.
C13_NoCallAfterFailureNoRetry ==
    /\ \A i \in FailedOperations : \A j \in Calls :
         j > i =>
           /\ calls[j].fn \in ReleaseFns
           /\ \E c \in CreationsOf(calls[j].h) : c < i
    /\ \A k \in FailedSteps : \A j \in Rets : j > k => rets[j].op \in DropOps
    /\ \A st \in DriverSteps :
         /\ Cardinality({k \in Rets : rets[k].step = st}) <= 1
         /\ \A i, j \in Calls :
              (calls[i].step = st /\ calls[j].step = st
               /\ calls[i].fn = calls[j].fn) => i = j

\* The run ended after the timed transform failed: the resources created
\* before it were released after the failure.
C13_Witness ==
    /\ pc = "done"
    /\ \E i \in FailedOperations :
         /\ calls[i].step = "timed"
         /\ Cardinality({j \in Calls : j > i}) = 4


\* C16: a command line whose --batch or --length is 0 is rejected before any
\* work: no wrapper is invoked and no foreign call issued for it, and the run
\* ends with a non-zero exit code that is not that of a panic and with
\* nothing on standard output.
C16_ZeroRejectedBeforeWork ==
    (args.batch = 0 \/ args.length = 0) =>
      /\ calls = <<>>
      /\ rets = <<>>
      /\ pc = "done" => (exitCode \notin {0, 101} /\ stdout = <<>>)

\* C19: every cufftPlanMany call that returned success was handed the
\* transform size (also the distance between consecutive signals) and the
\* batch count that new_batch_1d was asked for.
C19_PlanConfiguredAsRequested ==
    \A i \in Calls :
      (calls[i].fn = "cufftPlanMany" /\ Succeeded(calls[i])) =>
        /\ calls[i].x = rets[calls[i].inv].x
        /\ calls[i].y = rets[calls[i].inv].y



\* C18: an execute_forward invoked with a buffer whose element count is not
\* the plan's transform length times its batch count issues no cufftExecC2C
\* (the check comes first) and does not return Ok.
C18_NoExecuteOnMismatch ==
    \A k \in Rets :
      (rets[k].op = "execute_forward" /\ rets[k].x # args.length * args.batch)
        => /\ \A i \in CallsOf(k) : calls[i].fn # "cufftExecC2C"
           /\ rets[k].tag # "Ok"


\* The error of invocation k reports status c under the message `text`.
Reports(k, text, c) == rets[k].err = StringErr(text, c)

\* C20 as claimed: a failed execute_forward has made the transform call and
\* the synchronization, and its error reports the status of each of the two
\* that failed (both, when both failed).
C20_FailureCombinesStatuses ==
    \A k \in ExecInvocations :
      rets[k].tag = "Err" =>
        /\ \E e \in CallsOf(k) :
             /\ calls[e].fn = "cufftExecC2C"
             /\ ~Succeeded(calls[e]) =>
                  Reports(k, "cuFFT execution failed", calls[e].res)
        /\ \E s \in CallsOf(k) :
             /\ calls[s].fn = "cudaDeviceSynchronize"
             /\ ~Succeeded(calls[s]) =>
                  Reports(k, "CUDA synchronization failed", calls[s].res)

\* C20 amended: a failed execute_forward reports exactly one status: that of
\* cufftExecC2C when it failed (its last call: no synchronization is made),
\* otherwise that of the failed synchronization; in no invocation do both
\* calls fail, and main's error line carries the same single status.
C20_FailureCarriesOneStatus ==
    /\ \A k \in ExecInvocations :
         LET failed == {i \in CallsOf(k) : ~Succeeded(calls[i])}
         IN  /\ Cardinality(failed) <= 1
             /\ rets[k].tag = "Err" <=> failed # {}
             /\ \A i \in failed :
                  /\ \A j \in CallsOf(k) : j <= i
                  /\ Reports(k, IF calls[i].fn = "cufftExecC2C"
                                THEN "cuFFT execution failed"
                                ELSE "CUDA synchronization failed",
                             calls[i].res)
    /\ \A k \in ExecInvocations :
         (pc = "done" /\ rets[k].tag = "Err") =>
           \E n \in 1 .. Len(stderr) :
             stderr[n].kind = "error" /\ stderr[n].err = rets[k].err

\* A run has ended on the error of the timed execute_forward, whose transform
\* was accepted and whose synchronization failed.
C20_Witness ==
    /\ pc = "done"
    /\ \E k \in ExecInvocations :
         /\ rets[k].step = "timed"
         /\ rets[k].err.text = "CUDA synchronization failed"
         /\ Cardinality(CallsOf(k)) = 2


\* The run has ended: it either printed the result record and exits 0, or
\* printed nothing on standard output and exits non-zero with the failure on
\* standard error; and every resource that was created has been released.
Terminated ==
    /\ pc = "done"
    /\ \/ /\ exitCode = 0
          /\ \E n \in 1 .. Len(stdout) : stdout[n].line = "row"
       \/ /\ exitCode # 0 /\ exitCode # NotExited
          /\ stdout = <<>>
          /\ \E n \in 1 .. Len(stderr) : stderr[n].kind \in {"error", "panic"}
    /\ \A h \in Handles : CreationsOf(h) # {} => ReleasesOf(h) # {}
    /\ d_data.state # "live" /\ plan.state # "Ready"
    /\ start.state # "live" /\ stop.state # "live"

\* C17: every run of main in which each foreign call returns eventually
\* ends, with the result record emitted or a failure reported, and with every
\* created resource released; once ended it stays ended.
C17_EventuallyTerminates == <>[]Terminated

\* A failed run has ended after the plan construction failed: the buffer,
\* the only resource created, has been released.
C17_Witness ==
    /\ Terminated
    /\ exitCode = 1
    /\ CreationsOf("d_data") # {} /\ CreationsOf("plan") = {}
    /\ \E i \in Calls : calls[i].fn = "cufftPlanMany"


\* The elements of data that unit u read or wrote.
Accessed(u) == {i \in DOMAIN touched : u \in touched[i]}

\* C14: whatever the number of pool threads and the order in which they take
\* and finish the chunks, no element of data is accessed by two units; a
\* unit that has started has accessed exactly its own `length` consecutive
\* elements and its own scratch buffer, which no other unit uses; at most
\* `workers` units run at once; and the batch chunks cover the array: when
\* the run has ended normally every element was accessed by exactly one
\* unit.
C14_DisjointSlices ==
    /\ \A i \in DOMAIN touched : Cardinality(touched[i]) <= 1
    /\ \A u \in DOMAIN units :
         /\ units[u].state = "pending" => Accessed(u) = {}
         /\ units[u].state # "pending" =>
              /\ Accessed(u) = (u - 1) * args.length + 1 .. u * args.length
              /\ scratch[units[u].scratch].owner = u
    /\ \A s \in DOMAIN scratch :
         /\ scratch[s].users = {scratch[s].owner}
         /\ \A t \in DOMAIN scratch : scratch[t].owner = scratch[s].owner => t = s
    /\ Cardinality(RunningUnits) <= workers
    /\ pc = "for_each" =>
         /\ Len(units) = args.batch
         /\ Len(touched) = Len(data)
         /\ Len(data) = args.batch * args.length
    /\ (pc = "done" /\ exitCode = 0) =>
         \A i \in DOMAIN data : Cardinality(touched[i]) = 1

\* Two units are running at the same time on chunks of four elements while a
\* third has finished.
C14_Witness ==
    /\ pc = "for_each"
    /\ args.length = 4
    /\ Cardinality(RunningUnits) = 2
    /\ \E u \in DOMAIN units : units[u].state = "done"

\* Slot i (from 1) of an array of signals of args.length samples.
Slot(seq, i) == SubSeq(seq, (i - 1) * args.length + 1, i * args.length)
\* The forward transform of one signal.
ForwardTransform(x) == process_with_scratch(plan_fft_forward(Len(x)), x).val
\* Bin f (from 0) is the only non-zero bin of the spectrum X.
PeakAt(X, f) == \A k \in 1 .. Len(X) : X[k] # 0 <=> k = f + 1

\* C15: at every moment of perform_batch_fft, under every schedule, the slot
\* of a finished unit holds the forward transform of that slot's input and
\* every other slot still holds its input, so that at the end slot i is the
\* transform of slot i's input alone; and the spectrum of a slot whose input
\* is the complex exponential of frequency f has its peak (its only non-zero
\* bin) at bin f.
C15_SlotsTransformedIndependently ==
    pc \in {"for_each", "done"} =>
      \A i \in DOMAIN units :
        /\ units[i].state # "done" => Slot(data, i) = Slot(input, i)
        /\ units[i].state = "done" =>
             /\ Slot(data, i) = ForwardTransform(Slot(input, i))
             /\ \A f \in 0 .. args.length - 1 :
                  Slot(input, i) = ComplexExponential(f, args.length)
                    => PeakAt(Slot(data, i), f)

\* test_batch_fft's case has run to the end, on two threads: three slots of
\* four samples, slot i (from 0) carrying frequency i + 1.
C15_Witness ==
    /\ pc = "done" /\ exitCode = 0
    /\ args.batch = 3 /\ args.length = 4 /\ workers = 2
    /\ \A i \in 1 .. 3 :
         /\ Slot(input, i) = ComplexExponential(i, 4)
         /\ PeakAt(Slot(data, i), i)


\* The operations whose failure main surfaces as an operation failure.
SurfacedOps == {"copy_from_host", "execute_forward", "record", "synchronize",
                "elapsed_time"}
\* The error the wrapper `op` returns when its runtime call fails with
\* status c (for execute_forward: its synchronization).
ErrorOf(op, c) ==
    IF op = "copy_from_host"
    THEN copy_from_host([state |-> "live", ptr |-> "d_data", len |-> 0], 0,
                        FALSE, c).ret.err
    ELSE IF op = "record" THEN record(NoEvent, c).ret.err
    ELSE IF op = "synchronize" THEN synchronize(NoEvent, c).ret.err
    ELSE IF op = "elapsed_time"
    THEN elapsed_time(NoEvent, NoEvent, "ms", c).ret.err
    ELSE execute_forward(NoPlan, NullPtr, CUFFT_SUCCESS, c).ret.err
\* The error lines main has written.
ErrorReports == {n \in 1 .. Len(stderr) : stderr[n].kind = "error"}

\* C21: when a run has ended on the failure of a copy, execute, record,
\* synchronize or elapsed_time, the error line carries the status the failed
\* foreign call returned and tells the operation apart: it is not the line
\* that another of these operations produces for the same status.
C21_ReportIdentifiesOperation ==
    pc = "done" =>
      \A k \in FailedSteps :
        (rets[k].op \in SurfacedOps /\ rets[k].tag = "Err") =>
          \E n \in ErrorReports :
            /\ stderr[n].err = rets[k].err
            /\ \E i \in CallsOf(k) : ~Succeeded(calls[i])
                                     /\ stderr[n].err.code = calls[i].res
            /\ \A op \in SurfacedOps \ {rets[k].op} :
                 ErrorOf(op, stderr[n].err.code) # stderr[n].err


\* The result record: the CSV header, then the data row of this run.
ResultRecord ==
    <<[line |-> "header"],
      [line |-> "row", batch |-> args.batch, length |-> args.length,
       ms |-> milliseconds]>>

\* C22: standard output is empty or holds the result record once (header,
\* then the row with the measured duration); it holds the record only when
\* each of the twelve steps, elapsed_time last, was made and succeeded and
\* none failed; a run that has ended on a failure or a panic has written
\* nothing to standard output.
C22_RecordOnlyAfterSuccess ==
    /\ stdout \in {<<>>, ResultRecord}
    /\ stdout # <<>> =>
         /\ \A st \in DriverSteps : StepSucceeded(st)
         /\ FailedSteps = {}
         /\ \A i \in Calls : calls[i].fn \notin ReleaseFns => Succeeded(calls[i])
         /\ \E e \in Calls : /\ calls[e].fn = "cudaEventElapsedTime"
                             /\ \A i \in Calls :
                                  calls[i].fn \notin ReleaseFns => i <= e
         /\ milliseconds # Unspecified
         /\ pc \in {"drop", "done"}
    /\ (pc = "done" /\ (exitCode # 0 \/ FailedSteps # {})) => stdout = <<>>
    /\ (pc = "done" /\ exitCode = 0) => stdout = ResultRecord

\* The record has just been written: no resource has been released yet.
C22_Witness ==
    /\ stdout = ResultRecord
    /\ pc = "drop"
    /\ stop.state = "live" /\ d_data.state = "live"
    /\ AllReleases = {}


\* main's resources in the order it creates them.
CreationOrder == <<"d_data", "plan", "start", "stop">>
\* The foreign calls that were handed handle h.
UsesOf(h) == {i \in Calls : calls[i].h = h \/ calls[i].h2 = h}

====
